---------------------------- MODULE Spec2Model ----------------------------
(***************************************************************************)
(* A model of the String Analyzer Service (src/app/main.py): the sqlite    *)
(* table "strings", the five HTTP routes in their registration order, the  *)
(* handlers behind them split at their database calls, the analyzer and    *)
(* the natural-language query parser.                                      *)
(*                                                                         *)
(* Text is modelled as a sequence of one-character strings, so that        *)
(* lowercasing, trimming, substring search and the regular expressions of  *)
(* the source are computed character by character.                         *)
(***************************************************************************)
EXTENDS Integers, Sequences, FiniteSets, TLC

VARIABLES store, clock, pc, req, loc, resp

vars == <<store, clock, pc, req, loc, resp>>

(***************************************************************************)
(* Bounds of the model.                                                    *)
(***************************************************************************)
\* number of values of StoreUniverse that clients create in Spec
NumStoreValues == 2
\* number of values of QueryUniverse that clients create in SpecQuery
NumQueryValues == 3
\* number of values of NlUniverse that callers create in SpecNL
NumNlValues == 2
\* largest reading of the wall clock
MaxClock == 1
\* largest number of fragments concatenated into a phrase
MaxPhraseFrags == 2
\* largest min_length / max_length / word_count a structured query carries
MaxQueryInt == 2
\* largest length of the texts over Alphabet that SpecAnalyze analyzes
MaxTextLen == 2

\* two handler threads of the server: the races are between two requests
Procs == {1, 2}

(***************************************************************************)
(* Python's None, and the dict operations the source uses.                 *)
(***************************************************************************)
None == [none |-> TRUE]

\* dict with one more key set (d[k] = v)
DictSet(d, k, v) == (k :> v) @@ d

EmptyDict == [x \in {} |-> 0]

(***************************************************************************)
(* Characters and the str methods the source calls.                        *)
(***************************************************************************)
UpperLetters ==
    <<"A","B","C","D","E","F","G","H","I","J","K","L","M",
      "N","O","P","Q","R","S","T","U","V","W","X","Y","Z">>

LowerLetters ==
    <<"a","b","c","d","e","f","g","h","i","j","k","l","m",
      "n","o","p","q","r","s","t","u","v","w","x","y","z">>

DigitChars == <<"0","1","2","3","4","5","6","7","8","9">>

Range(f) == {f[i] : i \in DOMAIN f}

UpperSet == Range(UpperLetters)

DigitSet == Range(DigitChars)

WordSet == Range(LowerLetters) \cup UpperSet \cup DigitSet \cup {"_"}

HexSet == DigitSet \cup {"a","b","c","d","e","f"} \cup {"A","B","C","D","E","F"}

IsDigit(c) == c \in DigitSet

\* \w of the re module, on ASCII text
IsWordChar(c) == c \in WordSet

\* whitespace of str.split() and str.strip()
IsSpace(c) == c \in {" ", "\t", "\n"}

\* [A-Fa-f0-9]
IsHexChar(c) == c \in HexSet

LowerMap ==
    [c \in UpperSet |-> LowerLetters[CHOOSE i \in 1..26 : UpperLetters[i] = c]]

LowerChar(c) == IF c \in UpperSet THEN LowerMap[c] ELSE c

\* s.lower()
str_lower(s) == [i \in 1..Len(s) |-> LowerChar(s[i])]

\* s[::-1]
str_reverse(s) == [i \in 1..Len(s) |-> s[Len(s) + 1 - i]]

\* s.strip()
str_strip(s) ==
    LET keep == {i \in 1..Len(s) : ~IsSpace(s[i])}
    IN  IF keep = {} THEN <<>>
        ELSE LET lo == CHOOSE i \in keep : \A j \in keep : i <= j
                 hi == CHOOSE i \in keep : \A j \in keep : j <= i
             IN  SubSeq(s, lo, hi)

\* len(s.split()): the number of maximal runs of non-whitespace
str_split_len(s) ==
    Cardinality({i \in 1..Len(s) :
                    /\ ~IsSpace(s[i])
                    /\ (i = 1 \/ IsSpace(s[i - 1]))})

\* whether sub occurs in s at position i
MatchAt(s, sub, i) ==
    /\ i >= 1
    /\ i + Len(sub) - 1 <= Len(s)
    /\ \A k \in 1..Len(sub) : s[i + k - 1] = sub[k]

\* sub in s
str_contains(s, sub) == \E i \in 1..(Len(s) + 1) : MatchAt(s, sub, i)

DigitValue ==
    [c \in DigitSet |-> (CHOOSE i \in 1..10 : DigitChars[i] = c) - 1]

\* int(digits) for a nonempty run of decimal digits
RECURSIVE ParseInt(_)
ParseInt(ds) ==
    IF ds = <<>> THEN 0
    ELSE 10 * ParseInt(SubSeq(ds, 1, Len(ds) - 1))
         + DigitValue[ds[Len(ds)]]

(***************************************************************************)
(* The texts clients send, with their SHA-256 digests (hashlib.sha256 of   *)
(* the UTF-8 bytes, hexdigest).  H_level is also sent as a value: a text   *)
(* of 64 hex characters that is the id of another record.                  *)
(***************************************************************************)
\* the value "level" (src/tests/test_api.py:25)
V_level ==
    <<"l","e","v","e","l">>
\* sha256("level"), lowercase hex
H_level ==
    <<"0","0","8","1","7","7","9","c","2","8","7","d","5","6","7","d","9","c",
    "a","6","2","2","f","4","c","0","c","c","2","e","d","e","8","1","9","b",
    "0","c","c","7","f","2","8","6","a","5","f","0","1","d","8","c","3","c",
    "0","1","7","8","1","9","1","a","d","6">>
\* sha256 of the 64-character text H_level
HH_level ==
    <<"f","5","0","a","7","0","7","1","7","c","0","3","c","5","1","2","4","b",
    "9","8","e","0","1","2","6","2","e","a","0","e","8","9","b","1","5","c",
    "8","c","c","0","b","e","e","2","c","c","3","3","8","0","d","5","4","5",
    "a","0","e","f","0","d","2","0","a","e">>
\* H_level in upper case: 64 hex characters, never a stored id
U_level ==
    <<"0","0","8","1","7","7","9","C","2","8","7","D","5","6","7","D","9","C",
    "A","6","2","2","F","4","C","0","C","C","2","E","D","E","8","1","9","B",
    "0","C","C","7","F","2","8","6","A","5","F","0","1","D","8","C","3","C",
    "0","1","7","8","1","9","1","A","D","6">>
\* sha256 of the 64-character text U_level
HU_level ==
    <<"3","b","9","1","3","a","c","d","3","8","4","7","c","5","8","8","2","c",
    "d","a","8","1","7","f","4","1","8","e","7","5","8","0","1","b","8","2",
    "c","d","a","1","5","1","7","f","6","9","f","b","e","9","b","3","a","a",
    "4","4","7","d","7","b","c","d","3","4">>
\* the value "noon"
V_noon ==
    <<"n","o","o","n">>
\* sha256("noon")
H_noon ==
    <<"b","1","9","8","f","3","c","d","8","e","7","0","4","8","e","4","a","5",
    "2","3","6","7","1","b","5","8","9","8","6","4","c","f","9","1","4","0",
    "1","c","c","0","4","a","8","8","9","a","0","e","4","2","2","1","5","b",
    "3","7","5","0","e","d","b","6","f","f">>
\* the value "a"
V_a ==
    <<"a">>
\* sha256("a")
H_a ==
    <<"c","a","9","7","8","1","1","2","c","a","1","b","b","d","c","a","f","a",
    "c","2","3","1","b","3","9","a","2","3","d","c","4","d","a","7","8","6",
    "e","f","f","8","1","4","7","c","4","e","7","2","b","9","8","0","7","7",
    "8","5","a","f","e","e","4","8","b","b">>
\* the value "racecar"
V_racecar ==
    <<"r","a","c","e","c","a","r">>
\* sha256("racecar")
H_racecar ==
    <<"e","0","0","f","9","e","f","5","1","a","9","5","f","6","e","8","5","4",
    "8","6","2","e","e","d","2","8","d","c","0","f","1","a","6","8","f","1",
    "5","4","d","9","f","7","5","d","d","d","8","4","1","a","b","0","0","d",
    "e","6","e","d","e","9","2","0","9","b">>
\* the value "hello world"
V_hello_world ==
    <<"h","e","l","l","o"," ","w","o","r","l","d">>
\* sha256("hello world")
H_hello_world ==
    <<"b","9","4","d","2","7","b","9","9","3","4","d","3","e","0","8","a","5",
    "2","e","5","2","d","7","d","a","7","d","a","b","f","a","c","4","8","4",
    "e","f","e","3","7","a","5","3","8","0","e","e","9","0","8","8","f","7",
    "a","c","e","2","e","f","c","d","e","9">>
\* the value "filter-by-natural-language"
V_route ==
    <<"f","i","l","t","e","r","-","b","y","-","n","a","t","u","r","a","l","-",
    "l","a","n","g","u","a","g","e">>
\* sha256("filter-by-natural-language")
H_route ==
    <<"f","2","5","a","5","4","6","f","0","1","2","0","e","8","3","9","0","9",
    "2","a","2","d","d","1","3","5","9","0","9","e","3","2","c","9","a","4",
    "3","7","9","4","f","3","c","8","2","f","c","b","6","b","4","4","5","3",
    "0","2","4","f","4","1","7","2","6","6">>
\* the value "Zz"
V_Zz ==
    <<"Z","z">>
\* sha256("Zz")
H_Zz ==
    <<"d","a","8","5","1","7","a","4","b","9","1","8","0","a","c","b","6","9",
    "8","7","e","8","e","7","5","8","2","b","8","0","8","f","c","6","4","b",
    "6","3","1","c","d","8","9","2","e","d","3","6","6","8","5","d","e","d",
    "6","8","1","6","f","6","0","1","2","5">>

\* values created in Spec, in the order the bound NumStoreValues takes them
StoreUniverse == <<V_level, H_level, V_noon, U_level>>

\* values created in SpecQuery, in the order the bound NumQueryValues takes them
QueryUniverse == <<V_a, V_route, V_hello_world, V_Zz, V_racecar>>

\* values created in SpecNL, in the order the bound NumNlValues takes them
NlUniverse == <<V_a, V_hello_world, V_Zz, V_racecar>>

Min(a, b) == IF a <= b THEN a ELSE b

StoreValues == {StoreUniverse[i] : i \in 1..Min(NumStoreValues, Len(StoreUniverse))}

QueryValues == {QueryUniverse[i] : i \in 1..Min(NumQueryValues, Len(QueryUniverse))}

NlValues == {NlUniverse[i] : i \in 1..Min(NumNlValues, Len(NlUniverse))}

(***************************************************************************)
(* The texts of up to three characters over Alphabet, each with its        *)
(* SHA-256 digest (hashlib.sha256 of the UTF-8 bytes, hexdigest).          *)
(***************************************************************************)
Alphabet == {"a", "A", " "}

TextDigests ==
    <<
       \* sha256("")
       <<<<>>,
         <<"e","3","b","0","c","4","4","2","9","8","f","c","1","c","1","4","9",
           "a","f","b","f","4","c","8","9","9","6","f","b","9","2","4","2","7",
           "a","e","4","1","e","4","6","4","9","b","9","3","4","c","a","4","9",
           "5","9","9","1","b","7","8","5","2","b","8","5","5">>>>,
       \* sha256("a")
       <<<<"a">>,
         <<"c","a","9","7","8","1","1","2","c","a","1","b","b","d","c","a","f",
           "a","c","2","3","1","b","3","9","a","2","3","d","c","4","d","a","7",
           "8","6","e","f","f","8","1","4","7","c","4","e","7","2","b","9","8",
           "0","7","7","8","5","a","f","e","e","4","8","b","b">>>>,
       \* sha256("A")
       <<<<"A">>,
         <<"5","5","9","a","e","a","d","0","8","2","6","4","d","5","7","9","5",
           "d","3","9","0","9","7","1","8","c","d","d","0","5","a","b","d","4",
           "9","5","7","2","e","8","4","f","e","5","5","5","9","0","e","e","f",
           "3","1","a","8","8","a","0","8","f","d","f","f","d">>>>,
       \* sha256(" ")
       <<<<" ">>,
         <<"3","6","a","9","e","7","f","1","c","9","5","b","8","2","f","f","b",
           "9","9","7","4","3","e","0","c","5","c","4","c","e","9","5","d","8",
           "3","c","9","a","4","3","0","a","a","c","5","9","f","8","4","e","f",
           "3","c","b","f","a","b","6","1","4","5","0","6","8">>>>,
       \* sha256("aa")
       <<<<"a","a">>,
         <<"9","6","1","b","6","d","d","3","e","d","e","3","c","b","8","e","c",
           "b","a","a","c","b","d","6","8","d","e","0","4","0","c","d","7","8",
           "e","b","2","e","d","5","8","8","9","1","3","0","c","c","e","b","4",
           "c","4","9","2","6","8","e","a","4","d","5","0","6">>>>,
       \* sha256("aA")
       <<<<"a","A">>,
         <<"a","f","1","c","0","8","0","9","8","c","f","1","1","9","b","b","4",
           "9","8","1","7","2","9","7","2","1","7","1","4","a","4","b","9","9",
           "4","8","d","b","c","b","6","b","5","f","f","f","2","1","c","b","0",
           "f","4","5","f","0","6","a","d","1","f","7","e","a">>>>,
       \* sha256("a ")
       <<<<"a"," ">>,
         <<"6","5","8","3","d","c","d","6","0","5","6","f","d","3","2","a","a",
           "d","d","0","d","2","d","0","b","e","9","2","0","d","e","9","9","f",
           "6","f","f","0","8","b","8","0","0","6","5","e","4","b","9","1","4",
           "2","a","a","a","4","1","6","9","3","9","1","c","b">>>>,
       \* sha256("Aa")
       <<<<"A","a">>,
         <<"8","1","a","c","a","a","f","b","a","9","6","1","b","b","8","3","1",
           "e","c","4","0","e","b","9","6","5","1","5","5","e","3","4","8","6",
           "3","9","2","c","6","0","c","f","b","8","c","7","5","1","5","0","b",
           "e","a","f","2","c","a","f","f","c","2","4","4","a">>>>,
       \* sha256("AA")
       <<<<"A","A">>,
         <<"5","8","b","b","1","1","9","c","3","5","5","1","3","a","4","5","1",
           "d","2","4","d","c","2","0","e","f","0","e","9","0","3","1","e","c",
           "8","5","b","3","5","b","f","c","9","1","9","d","2","6","3","e","7",
           "e","5","d","9","8","6","8","9","0","9","c","b","5">>>>,
       \* sha256("A ")
       <<<<"A"," ">>,
         <<"7","a","7","2","0","2","f","b","1","b","5","3","1","0","5","f","0",
           "0","a","4","3","0","8","2","2","3","1","6","0","a","2","2","f","d",
           "2","8","7","6","7","8","f","c","c","8","c","f","3","6","8","1","a",
           "3","6","a","5","7","e","e","8","5","e","7","5","a">>>>,
       \* sha256(" a")
       <<<<" ","a">>,
         <<"7","d","e","5","9","8","b","3","f","f","8","a","9","9","6","3","8",
           "e","1","f","9","b","f","4","9","2","6","0","b","a","a","0","d","9",
           "8","e","0","6","9","d","d","e","3","2","d","1","f","2","e","1","5",
           "3","a","d","b","5","c","e","4","7","8","2","4","2">>>>,
       \* sha256(" A")
       <<<<" ","A">>,
         <<"5","a","8","f","c","4","9","b","3","d","5","4","c","5","1","1","d",
           "0","1","3","a","7","c","6","1","c","4","b","5","e","2","6","b","9",
           "8","c","4","b","2","3","6","7","e","6","7","2","2","d","8","1","9",
           "5","6","f","b","c","1","c","e","c","0","1","c","0">>>>,
       \* sha256("  ")
       <<<<" "," ">>,
         <<"6","c","1","7","9","f","2","1","e","6","f","6","2","b","6","2","9",
           "0","5","5","d","8","a","b","4","0","f","4","5","4","e","d","0","2",
           "e","4","8","b","6","8","5","6","3","9","1","3","4","7","3","b","8",
           "5","7","d","3","6","3","8","e","2","3","b","2","8">>>>,
       \* sha256("aaa")
       <<<<"a","a","a">>,
         <<"9","8","3","4","8","7","6","d","c","f","b","0","5","c","b","1","6",
           "7","a","5","c","2","4","9","5","3","e","b","a","5","8","c","4","a",
           "c","8","9","b","1","a","d","f","5","7","f","2","8","f","2","f","9",
           "d","0","9","a","f","1","0","7","e","e","8","f","0">>>>,
       \* sha256("aaA")
       <<<<"a","a","A">>,
         <<"b","5","4","2","2","f","4","e","f","2","d","5","a","6","a","b","f",
           "2","c","1","f","6","e","9","6","7","0","9","d","0","5","0","4","3",
           "d","d","0","5","c","2","3","9","3","9","2","f","f","e","b","f","9",
           "c","c","0","e","4","6","1","6","0","8","2","0","f">>>>,
       \* sha256("aa ")
       <<<<"a","a"," ">>,
         <<"8","c","f","b","2","1","2","c","3","2","7","5","b","2","b","5","9",
           "6","b","4","f","6","1","c","6","0","5","7","b","0","7","5","9","9",
           "d","f","5","f","f","5","c","3","3","e","d","8","c","1","a","a","c",
           "d","e","0","7","e","f","f","2","6","c","7","e","d">>>>,
       \* sha256("aAa")
       <<<<"a","A","a">>,
         <<"b","f","d","7","c","a","0","3","6","0","0","c","d","e","2","c","d",
           "5","0","b","0","e","7","c","d","f","9","9","d","2","9","7","2","8",
           "3","9","f","8","0","6","a","7","0","8","1","7","e","4","8","e","c",
           "3","d","5","e","7","2","b","2","5","e","4","3","e">>>>,
       \* sha256("aAA")
       <<<<"a","A","A">>,
         <<"a","d","9","2","3","8","8","0","0","7","f","d","6","0","e","6","f",
           "3","8","5","5","6","b","6","a","a","7","f","c","e","2","f","3","d",
           "7","5","4","2","b","c","8","8","a","e","6","5","5","e","1","0","e",
           "d","3","e","d","b","8","3","6","c","c","1","7","e">>>>,
       \* sha256("aA ")
       <<<<"a","A"," ">>,
         <<"a","1","a","0","7","6","8","9","6","f","6","c","c","8","e","5","6",
           "5","a","a","c","8","f","0","1","3","4","d","6","5","6","1","f","a",
           "1","b","5","d","7","a","e","4","e","e","b","1","7","1","b","c","a",
           "e","2","8","4","c","d","b","4","0","8","b","b","b">>>>,
       \* sha256("a a")
       <<<<"a"," ","a">>,
         <<"3","d","5","f","d","6","b","1","c","d","e","4","8","d","e","f","6",
           "6","c","7","8","7","0","8","4","3","1","8","0","8","b","9","e","2",
           "a","b","b","1","3","6","3","1","4","0","a","3","c","9","f","5","6",
           "4","a","5","5","4","f","1","e","e","9","6","2","1">>>>,
       \* sha256("a A")
       <<<<"a"," ","A">>,
         <<"3","e","5","7","2","5","2","f","1","a","b","7","1","1","1","3","9",
           "0","7","2","2","9","6","3","5","d","7","9","c","9","c","7","8","d",
           "f","b","c","d","d","e","f","d","9","1","9","9","0","d","3","2","1",
           "9","9","f","f","0","3","c","a","f","3","5","9","e">>>>,
       \* sha256("a  ")
       <<<<"a"," "," ">>,
         <<"b","8","a","1","d","2","9","a","6","7","6","1","e","2","d","4","7",
           "4","5","9","1","c","0","5","7","5","9","5","f","7","8","a","1","9",
           "f","9","0","f","9","0","0","4","b","0","6","e","9","8","9","5","c",
           "5","6","6","7","6","b","d","8","2","7","d","1","f">>>>,
       \* sha256("Aaa")
       <<<<"A","a","a">>,
         <<"a","9","5","0","b","f","d","f","a","7","b","b","6","4","d","9","c",
           "0","e","8","c","5","1","1","d","3","d","0","7","0","1","6","a","1",
           "c","b","4","9","a","c","d","4","d","b","d","3","2","3","d","9","b",
           "c","0","e","9","e","b","5","2","1","d","9","9","1">>>>,
       \* sha256("AaA")
       <<<<"A","a","A">>,
         <<"3","5","c","8","f","6","2","f","d","0","d","8","9","e","d","9","a",
           "b","5","1","2","a","3","7","a","b","b","0","6","a","d","4","6","3",
           "f","f","c","3","1","d","7","5","0","7","7","1","3","8","3","6","c",
           "9","4","5","4","a","d","c","9","f","5","c","d","b">>>>,
       \* sha256("Aa ")
       <<<<"A","a"," ">>,
         <<"e","c","8","1","e","2","d","7","d","2","6","1","5","5","7","a","6",
           "e","8","d","4","5","3","c","f","2","3","d","f","8","6","a","c","3",
           "7","3","c","2","2","b","0","6","4","f","2","b","3","d","e","2","f",
           "8","0","3","6","9","a","1","f","d","e","e","d","d">>>>,
       \* sha256("AAa")
       <<<<"A","A","a">>,
         <<"b","1","3","6","9","7","1","0","8","3","a","6","f","4","5","6","7",
           "6","3","b","3","f","e","e","b","7","d","e","c","3","c","a","5","4",
           "c","1","1","2","a","4","5","4","1","f","3","9","6","a","5","5","4",
           "a","a","d","f","a","8","3","a","d","6","e","6","a">>>>,
       \* sha256("AAA")
       <<<<"A","A","A">>,
         <<"c","b","1","a","d","2","1","1","9","d","8","f","a","f","b","6","9",
           "5","6","6","5","1","0","e","e","7","1","2","6","6","1","f","9","f",
           "1","4","b","8","3","3","8","5","0","0","6","e","f","9","2","a","e",
           "c","4","7","f","5","2","3","a","3","8","3","5","8">>>>,
       \* sha256("AA ")
       <<<<"A","A"," ">>,
         <<"d","1","8","9","6","3","9","b","4","9","d","2","2","a","a","d","9",
           "2","2","8","9","6","3","4","f","5","d","2","3","9","2","2","4","f",
           "f","4","b","1","0","a","9","8","c","1","c","6","9","5","b","a","a",
           "5","3","8","5","4","5","1","6","d","4","a","9","f">>>>,
       \* sha256("A a")
       <<<<"A"," ","a">>,
         <<"3","c","4","9","0","2","e","1","0","7","a","0","3","0","a","6","1",
           "8","a","6","6","7","8","7","d","c","a","7","5","c","1","b","5","e",
           "6","3","4","b","8","a","9","4","e","0","3","7","0","3","9","5","b",
           "0","7","0","e","a","e","a","1","0","f","d","7","b">>>>,
       \* sha256("A A")
       <<<<"A"," ","A">>,
         <<"e","7","0","4","c","b","a","c","8","1","f","1","a","e","5","0","4",
           "c","6","2","6","c","4","4","8","2","e","4","1","3","e","9","2","9",
           "5","9","b","3","f","0","3","4","5","7","b","a","f","3","c","4","5",
           "5","8","f","e","3","f","d","2","b","4","3","9","1">>>>,
       \* sha256("A  ")
       <<<<"A"," "," ">>,
         <<"6","2","a","4","f","6","4","c","2","a","8","d","9","4","d","e","0",
           "3","5","a","2","a","f","0","f","5","2","3","0","5","5","7","4","1",
           "9","5","1","e","f","e","0","5","b","7","b","4","c","d","e","d","8",
           "2","5","a","e","d","7","6","b","8","5","c","2","d">>>>,
       \* sha256(" aa")
       <<<<" ","a","a">>,
         <<"3","2","3","2","0","7","1","a","b","a","b","a","b","c","4","e","c",
           "f","c","4","f","b","b","8","5","9","8","3","3","9","a","5","a","c",
           "6","0","5","3","8","d","a","b","3","2","5","e","c","2","e","7","4",
           "2","3","9","0","8","2","2","8","b","a","3","e","6">>>>,
       \* sha256(" aA")
       <<<<" ","a","A">>,
         <<"a","2","2","e","3","6","b","a","c","e","f","5","0","2","1","2","4",
           "b","c","a","2","e","2","0","1","5","0","b","f","e","9","6","0","f",
           "3","6","0","2","d","3","3","6","b","a","0","7","2","2","d","a","6",
           "0","9","2","2","7","3","3","a","7","f","b","b","3">>>>,
       \* sha256(" a ")
       <<<<" ","a"," ">>,
         <<"c","b","f","7","f","3","0","0","0","4","f","3","6","6","7","c","b",
           "0","9","3","b","3","c","7","b","5","5","1","6","9","a","9","0","e",
           "3","f","0","0","4","4","f","6","e","a","3","f","f","9","3","d","3",
           "f","7","5","4","2","7","a","7","2","e","3","7","7">>>>,
       \* sha256(" Aa")
       <<<<" ","A","a">>,
         <<"a","4","2","c","d","3","8","c","0","c","d","a","5","3","b","d","5",
           "b","9","1","3","7","5","d","c","3","0","1","9","6","1","6","3","4",
           "7","4","3","0","2","1","7","b","8","0","f","d","9","0","0","4","2",
           "1","6","d","4","7","1","9","1","6","f","6","e","c">>>>,
       \* sha256(" AA")
       <<<<" ","A","A">>,
         <<"6","e","1","d","6","7","e","1","e","a","7","9","b","3","e","d","3",
           "1","2","2","6","6","4","a","2","f","6","5","2","d","f","3","0","b",
           "8","b","4","0","f","4","f","8","3","9","7","7","e","0","1","2","5",
           "e","1","f","7","2","5","c","b","f","d","f","8","7">>>>,
       \* sha256(" A ")
       <<<<" ","A"," ">>,
         <<"e","8","1","2","1","8","e","5","f","0","7","d","7","0","f","2","7",
           "6","9","1","b","1","c","5","5","3","a","2","d","d","4","4","d","2",
           "1","d","3","5","8","6","1","d","4","2","a","9","5","8","f","7","7",
           "f","8","7","3","2","0","a","f","7","d","1","f","9">>>>,
       \* sha256("  a")
       <<<<" "," ","a">>,
         <<"8","c","4","8","0","a","8","c","8","c","5","5","a","6","9","1","8",
           "e","3","9","7","a","c","6","b","1","2","2","c","f","b","2","e","6",
           "7","2","d","b","f","7","e","5","1","7","3","0","8","1","1","2","3",
           "1","8","c","6","c","e","5","b","0","1","9","c","5">>>>,
       \* sha256("  A")
       <<<<" "," ","A">>,
         <<"7","d","4","e","5","c","3","b","9","b","5","2","7","4","0","8","5",
           "3","e","e","8","b","5","7","d","2","8","b","0","1","f","d","c","f",
           "3","f","4","c","4","b","6","6","0","0","6","2","a","8","a","2","d",
           "3","3","f","e","6","c","1","3","0","5","7","7","0">>>>,
       \* sha256("   ")
       <<<<" "," "," ">>,
         <<"0","a","a","d","7","d","a","7","7","d","2","e","d","5","9","c","3",
           "9","6","c","9","9","a","7","4","e","4","9","f","3","a","4","5","2",
           "4","d","c","d","b","c","b","5","1","6","3","2","5","1","b","1","4",
           "3","3","d","6","4","0","2","4","7","a","e","b","4">>>>
    >>

(***************************************************************************)
(* Utilities: analysis                                                     *)
(***************************************************************************)
\* hashlib.sha256(s.encode('utf-8')).hexdigest(), tabulated on the texts above;
\* a text that is not tabulated has no digest here
compute_sha256(s) ==
    CASE s = V_level       -> H_level
      [] s = H_level       -> HH_level
      [] s = U_level       -> HU_level
      [] s = V_noon        -> H_noon
      [] s = V_a           -> H_a
      [] s = V_racecar     -> H_racecar
      [] s = V_hello_world -> H_hello_world
      [] s = V_route       -> H_route
      [] s = V_Zz          -> H_Zz
      [] OTHER             ->
            TextDigests[CHOOSE i \in DOMAIN TextDigests :
                            TextDigests[i][1] = s][2]

\* analyze_string counting the unique characters of s.lower()
analyze_string_folded(s) ==
    [ length                  |-> Len(s),
      is_palindrome           |-> (str_lower(s) = str_reverse(str_lower(s))),
      unique_characters       |-> Cardinality(Range(str_lower(s))),
      word_count              |-> str_split_len(s),
      sha256_hash             |-> compute_sha256(s),
      character_frequency_map |->
          [ch \in Range(s) |-> Cardinality({i \in 1..Len(s) : s[i] = ch})] ]

analyze_string(s) ==
    [ length                  |-> Len(s),
      is_palindrome           |-> (str_lower(s) = str_reverse(str_lower(s))),
      unique_characters       |-> Cardinality(Range(s)),
      word_count              |-> str_split_len(s),
      sha256_hash             |-> compute_sha256(s),
      character_frequency_map |->
          [ch \in Range(s) |-> Cardinality({i \in 1..Len(s) : s[i] = ch})] ]

(***************************************************************************)
(* DB helpers.  The table is the sequence of its rows in rowid order; the  *)
(* properties column holds the JSON text of the property dict.  A WHERE    *)
(* clause selects rows in scan order (SelectSeq).                          *)
(***************************************************************************)
json_dumps(d) == <<"json", d>>

json_loads(t) == t[2]

\* a row as the dict the db_get_* helpers and db_query_all build from it
RowDict(r) ==
    [ id         |-> r.id,
      value      |-> r.value,
      properties |-> json_loads(r.properties),
      created_at |-> r.created_at ]

\* db_insert on a table declared without PRIMARY KEY: every row is written
db_insert_no_primary_key(s, id_, value, properties, created_at) ==
    [ok |-> TRUE,
     store |-> Append(s, [ id         |-> id_,
                           value      |-> value,
                           properties |-> json_dumps(properties),
                           created_at |-> created_at ])]

\* db_insert as INSERT OR REPLACE: a row with the same id is overwritten
db_insert_or_replace(s, id_, value, properties, created_at) ==
    LET row == [ id         |-> id_,
                 value      |-> value,
                 properties |-> json_dumps(properties),
                 created_at |-> created_at ]
    IN  [ok |-> TRUE,
         store |-> IF \E i \in 1..Len(s) : s[i].id = id_
                   THEN [i \in 1..Len(s) |-> IF s[i].id = id_ THEN row ELSE s[i]]
                   ELSE Append(s, row)]

\* INSERT INTO strings ...: [ok, store]; ok is FALSE for sqlite3.IntegrityError
\* (id is the PRIMARY KEY), and then nothing is written
db_insert(s, id_, value, properties, created_at) ==
    IF \E i \in 1..Len(s) : s[i].id = id_
    THEN [ok |-> FALSE, store |-> s]
    ELSE [ok |-> TRUE,
          store |-> Append(s, [ id         |-> id_,
                                value      |-> value,
                                properties |-> json_dumps(properties),
                                created_at |-> created_at ])]

\* SELECT ... WHERE id = ?, fetchone()
db_get_by_id(s, id_) ==
    LET IsId(r) == r.id = id_
        rows == SelectSeq(s, IsId)
    IN  IF rows = <<>> THEN None ELSE RowDict(rows[1])

\* SELECT ... WHERE value = ?, fetchone()
db_get_by_value(s, value) ==
    LET IsValue(r) == r.value = value
        rows == SelectSeq(s, IsValue)
    IN  IF rows = <<>> THEN None ELSE RowDict(rows[1])

\* db_delete_by_id with the WHERE clause on the value column
db_delete_where_value(s, id_) ==
    LET IsValue(r) == r.value = id_
        NotValue(r) == r.value # id_
    IN  [changes |-> Len(SelectSeq(s, IsValue)),
         store   |-> SelectSeq(s, NotValue)]

\* db_delete_by_id that returns 1 whatever c.rowcount is
db_delete_by_id_returns_one(s, id_) ==
    LET NotId(r) == r.id # id_
    IN  [changes |-> 1, store |-> SelectSeq(s, NotId)]

\* DELETE FROM strings WHERE id = ?: [changes, store]
db_delete_by_id(s, id_) ==
    LET IsId(r) == r.id = id_
        NotId(r) == r.id # id_
    IN  [changes |-> Len(SelectSeq(s, IsId)),
         store   |-> SelectSeq(s, NotId)]

\* SELECT ... FROM strings, fetchall()
db_query_all(s) == [i \in 1..Len(s) |-> RowDict(s[i])]

(***************************************************************************)
(* HTTP boundary.  A request is a method, a path split at "/" and, by      *)
(* route, a JSON body or query parameters.  FastAPI tries the routes in    *)
(* the order their decorators ran and hands the request to the first one   *)
(* whose method and path match; a path parameter matches any one segment.  *)
(***************************************************************************)
S_strings == <<"s","t","r","i","n","g","s">>

S_filter_by_natural_language == V_route

Lit(text) == [lit |-> TRUE, text |-> text]

Param == [lit |-> FALSE, text |-> <<>>]

Routes ==
    << [method |-> "POST",   pattern |-> <<Lit(S_strings)>>,
        handler |-> "create_string"],
       [method |-> "GET",    pattern |-> <<Lit(S_strings), Param>>,
        handler |-> "get_string"],
       [method |-> "DELETE", pattern |-> <<Lit(S_strings), Param>>,
        handler |-> "delete_string"],
       [method |-> "GET",    pattern |-> <<Lit(S_strings)>>,
        handler |-> "list_strings"],
       [method |-> "GET",
        pattern |-> <<Lit(S_strings), Lit(S_filter_by_natural_language)>>,
        handler |-> "filter_by_nl"] >>

RouteMatches(route, r) ==
    /\ route.method = r.method
    /\ Len(route.pattern) = Len(r.path)
    /\ \A i \in 1..Len(r.path) :
          IF route.pattern[i].lit
          THEN r.path[i] = route.pattern[i].text
          ELSE r.path[i] # <<>> /\ "/" \notin Range(r.path[i])

\* the handler of the first route that matches, "none" when no route does
Dispatch(r) ==
    LET hits == {i \in 1..Len(Routes) : RouteMatches(Routes[i], r)}
    IN  IF hits = {} THEN "none"
        ELSE Routes[CHOOSE i \in hits : \A j \in hits : i <= j].handler

Response(status, body) == [status |-> status, body |-> body]

NoResp == Response(0, None)

Detail(text) == [detail |-> text]

NoReq == [method |-> "", path |-> <<>>, body |-> None, params |-> EmptyDict]

NoLoc == [none |-> TRUE]

\* POST /strings with body {"value": <text>}
PostString(v) ==
    [method |-> "POST", path |-> <<S_strings>>,
     body |-> [is_str |-> TRUE, value |-> v], params |-> EmptyDict]

\* POST /strings with body {"value": <a JSON number>}
PostNumber ==
    [method |-> "POST", path |-> <<S_strings>>,
     body |-> [is_str |-> FALSE, value |-> <<>>], params |-> EmptyDict]

\* GET /strings/<identifier>
GetReq(x) ==
    [method |-> "GET", path |-> <<S_strings, x>>, body |-> None,
     params |-> EmptyDict]

\* DELETE /strings/<identifier>
DeleteReq(x) ==
    [method |-> "DELETE", path |-> <<S_strings, x>>, body |-> None,
     params |-> EmptyDict]

\* GET /strings?<params>
ListReq(params) ==
    [method |-> "GET", path |-> <<S_strings>>, body |-> None, params |-> params]

\* GET /strings/filter-by-natural-language?query=<phrase>
NlReq(phrase) ==
    [method |-> "GET", path |-> <<S_strings, S_filter_by_natural_language>>,
     body |-> None, params |-> [query |-> phrase]]

(***************************************************************************)
(* Endpoint: Get specific                                                  *)
(***************************************************************************)
\* re.fullmatch(r"[A-Fa-f0-9]{64}", s)
is_sha256_hex(s) == Len(s) = 64 /\ \A i \in 1..Len(s) : IsHexChar(s[i])

NotFound == Response(404, Detail("String does not exist in the system"))

\* get_string that never tries its parameter as an id
get_string_by_value_only(s, string_value) ==
    LET item == db_get_by_value(s, string_value)
    IN  IF item = None THEN NotFound ELSE Response(200, item)

\* get_string that falls back to the value when no record has the id
get_string_with_fallback(s, string_value) ==
    IF is_sha256_hex(string_value) /\ db_get_by_id(s, string_value) # None
    THEN Response(200, db_get_by_id(s, string_value))
    ELSE LET item == db_get_by_value(s, string_value)
         IN  IF item = None THEN NotFound ELSE Response(200, item)

get_string(s, string_value) ==
    IF is_sha256_hex(string_value)
    THEN LET item == db_get_by_id(s, string_value)
         IN  IF item = None THEN NotFound ELSE Response(200, item)
    ELSE LET item == db_get_by_value(s, string_value)
         IN  IF item = None THEN NotFound ELSE Response(200, item)

(***************************************************************************)
(* Endpoint: Get All with filtering                                        *)
(***************************************************************************)
\* key in d, for a text key and a dict keyed by single characters
InKeys(key, d) == Len(key) = 1 /\ key[1] \in DOMAIN d

\* the Query(...) constraints of list_strings: ge=0 on the three integers,
\* min_length=1 and max_length=1 on contains_character
list_params_valid(params) ==
    /\ \A k \in {"min_length", "max_length", "word_count"} \cap DOMAIN params :
          params[k] >= 0
    /\ "contains_character" \in DOMAIN params
          => Len(params["contains_character"]) = 1

\* list_strings.matches with the length bounds exclusive
list_matches_exclusive(params, item) ==
    LET p == item.properties
        has(k) == k \in DOMAIN params
    IN  /\ ~(has("is_palindrome") /\ p.is_palindrome # params["is_palindrome"])
        /\ ~(has("min_length") /\ p.length <= params["min_length"])
        /\ ~(has("max_length") /\ p.length >= params["max_length"])
        /\ ~(has("word_count") /\ p.word_count # params["word_count"])
        /\ ~(has("contains_character")
             /\ ~InKeys(params["contains_character"], p.character_frequency_map))

\* list_strings.matches: an absent key of params is a parameter left None
list_matches(params, item) ==
    LET p == item.properties
        has(k) == k \in DOMAIN params
    IN  /\ ~(has("is_palindrome") /\ p.is_palindrome # params["is_palindrome"])
        /\ ~(has("min_length") /\ p.length < params["min_length"])
        /\ ~(has("max_length") /\ p.length > params["max_length"])
        /\ ~(has("word_count") /\ p.word_count # params["word_count"])
        /\ ~(has("contains_character")
             /\ ~InKeys(params["contains_character"], p.character_frequency_map))

Unprocessable == Response(422, Detail("validation error"))

\* list_strings with parameters declared without their Query constraints
list_strings_unvalidated(s, params) ==
    LET all_items == db_query_all(s)
        keep(i) == list_matches(params, i)
        data == SelectSeq(all_items, keep)
    IN  Response(200, [data |-> data, count |-> Len(data),
                       filters_applied |-> params])

list_strings(s, params) ==
    IF ~list_params_valid(params) THEN Unprocessable
    ELSE LET all_items == db_query_all(s)
             keep(i) == list_matches(params, i)
             data == SelectSeq(all_items, keep)
         IN  Response(200, [data |-> data, count |-> Len(data),
                            filters_applied |-> params])

(***************************************************************************)
(* Endpoint: Natural-language filtering                                    *)
(***************************************************************************)
\* the literal texts parse_nl_query looks for
\* "single word"
T_single_word ==
    <<"s","i","n","g","l","e"," ","w","o","r","d">>
\* "single-word"
T_single_hyphen_word ==
    <<"s","i","n","g","l","e","-","w","o","r","d">>
\* "palindrom"
T_palindrom ==
    <<"p","a","l","i","n","d","r","o","m">>
\* "longer than "
T_longer_than ==
    <<"l","o","n","g","e","r"," ","t","h","a","n"," ">>
\* " characters"
T_characters ==
    <<" ","c","h","a","r","a","c","t","e","r","s">>
\* "containing the letter "
T_containing_the_letter ==
    <<"c","o","n","t","a","i","n","i","n","g"," ","t","h","e"," ","l","e","t",
    "t","e","r"," ">>
\* "containing the letter z"
T_containing_the_letter_z ==
    <<"c","o","n","t","a","i","n","i","n","g"," ","t","h","e"," ","l","e","t",
    "t","e","r"," ","z">>
\* "contain the letter z"
T_contain_the_letter_z ==
    <<"c","o","n","t","a","i","n"," ","t","h","e"," ","l","e","t","t","e","r",
    " ","z">>
\* "containing z"
T_containing_z ==
    <<"c","o","n","t","a","i","n","i","n","g"," ","z">>
\* "first vowel"
T_first_vowel ==
    <<"f","i","r","s","t"," ","v","o","w","e","l">>

\* the index after the longest run of decimal digits of s that starts at j
RECURSIVE DigitsEnd(_, _)
DigitsEnd(s, j) ==
    IF j <= Len(s) /\ IsDigit(s[j]) THEN DigitsEnd(s, j + 1) ELSE j

\* a search that found nothing (re.search returned None)
NoMatch == <<>>

Leftmost(S) == CHOOSE i \in S : \A j \in S : i <= j

\* re.search(r"longer than (\d+)", ql): the text of group 1 (never
\* empty), NoMatch for no match
search_longer_than(ql) ==
    LET n    == Len(T_longer_than)
        hits == {i \in 1..Len(ql) :
                    /\ MatchAt(ql, T_longer_than, i)
                    /\ DigitsEnd(ql, i + n) > i + n}
    IN  IF hits = {} THEN NoMatch
        ELSE LET i == Leftmost(hits)
             IN  SubSeq(ql, i + n, DigitsEnd(ql, i + n) - 1)

\* re.search(r"longer than (\d+) characters", ql): the digits are followed by
\* a space, so group 1 is the whole run of digits
search_longer_than_characters(ql) ==
    LET n    == Len(T_longer_than)
        hits == {i \in 1..Len(ql) :
                    /\ MatchAt(ql, T_longer_than, i)
                    /\ DigitsEnd(ql, i + n) > i + n
                    /\ MatchAt(ql, T_characters, DigitsEnd(ql, i + n))}
    IN  IF hits = {} THEN NoMatch
        ELSE LET i == Leftmost(hits)
             IN  SubSeq(ql, i + n, DigitsEnd(ql, i + n) - 1)

\* re.search(r"containing the letter (\w)", ql): group 1, NoMatch for no match
search_containing_the_letter(ql) ==
    LET n    == Len(T_containing_the_letter)
        hits == {i \in 1..Len(ql) :
                    /\ MatchAt(ql, T_containing_the_letter, i)
                    /\ i + n <= Len(ql)
                    /\ IsWordChar(ql[i + n])}
    IN  IF hits = {} THEN NoMatch
        ELSE <<ql[Leftmost(hits) + n]>>

ValueError == [error |-> "Unable to parse natural language query"]

\* The blocks of parse_nl_query, each on the dict built so far and on ql, the
\* phrase stripped and lowercased; a block that fires assigns its key.

\* single word & palindromic
rule_single_word(f, ql) ==
    IF str_contains(ql, T_single_word) \/ str_contains(ql, T_single_hyphen_word)
    THEN DictSet(f, "word_count", 1) ELSE f

rule_palindrom(f, ql) ==
    IF str_contains(ql, T_palindrom)
    THEN DictSet(f, "is_palindrome", TRUE) ELSE f

\* the m block read as "at least N": min_length = n
rule_longer_than_at_least(f, ql) ==
    IF search_longer_than(ql) # NoMatch
    THEN DictSet(f, "min_length", ParseInt(search_longer_than(ql))) ELSE f

\* longer than N characters
rule_longer_than(f, ql) ==
    IF search_longer_than(ql) # NoMatch
    THEN DictSet(f, "min_length", ParseInt(search_longer_than(ql)) + 1) ELSE f

rule_longer_than_characters(f, ql) ==
    IF search_longer_than_characters(ql) # NoMatch
    THEN DictSet(f, "min_length",
                 ParseInt(search_longer_than_characters(ql)) + 1)
    ELSE f

\* containing the letter X
rule_letter(f, ql) ==
    IF search_containing_the_letter(ql) # NoMatch
    THEN DictSet(f, "contains_character", search_containing_the_letter(ql))
    ELSE f

\* containing character z
rule_letter_z(f, ql) ==
    IF \/ str_contains(ql, T_containing_the_letter_z)
       \/ str_contains(ql, T_contain_the_letter_z)
       \/ str_contains(ql, T_containing_z)
    THEN DictSet(f, "contains_character", <<"z">>) ELSE f

\* "contain the first vowel" heuristic -> 'a'
rule_first_vowel(f, ql) ==
    IF str_contains(ql, T_first_vowel)
    THEN DictSet(f, "contains_character", <<"a">>) ELSE f

\* the last block left out
rule_none(f, ql) == f

\* "strings containing the letter <char>" (generic)
rule_letter_generic(f, ql) ==
    IF search_containing_the_letter(ql) # NoMatch
    THEN DictSet(f, "contains_character", search_containing_the_letter(ql))
    ELSE f

\* the blocks in the order of the source
parse_rules(ql) ==
    rule_letter_generic(
      rule_first_vowel(
        rule_letter_z(
          rule_letter(
            rule_longer_than_characters(
              rule_longer_than(
                rule_palindrom(
                  rule_single_word(EmptyDict, ql), ql), ql), ql), ql), ql), ql), ql)

\* parse_nl_query without q.strip().lower()
parse_nl_query_as_typed(q) ==
    LET filters == parse_rules(q)
    IN  IF DOMAIN filters = {} THEN ValueError ELSE filters

\* the dict of parsed filters, or ValueError
parse_nl_query(q) ==
    LET found == {parse_rules(ql) : ql \in {str_lower(str_strip(q))}}
        filters == CHOOSE f \in found : TRUE
    IN  IF DOMAIN filters = {} THEN ValueError ELSE filters

\* filter_by_nl.matches with the lower length bound exclusive
nl_matches_exclusive(parsed, item) ==
    LET p == item.properties
        has(k) == k \in DOMAIN parsed
    IN  /\ ~(has("is_palindrome") /\ p.is_palindrome # parsed["is_palindrome"])
        /\ ~(has("min_length") /\ p.length <= parsed["min_length"])
        /\ ~(has("max_length") /\ p.length > parsed["max_length"])
        /\ ~(has("word_count") /\ p.word_count # parsed["word_count"])
        /\ ~(has("contains_character")
             /\ ~InKeys(parsed["contains_character"], p.character_frequency_map))

\* filter_by_nl.matches
nl_matches(parsed, item) ==
    LET p == item.properties
        has(k) == k \in DOMAIN parsed
    IN  /\ ~(has("is_palindrome") /\ p.is_palindrome # parsed["is_palindrome"])
        /\ ~(has("min_length") /\ p.length < parsed["min_length"])
        /\ ~(has("max_length") /\ p.length > parsed["max_length"])
        /\ ~(has("word_count") /\ p.word_count # parsed["word_count"])
        /\ ~(has("contains_character")
             /\ ~InKeys(parsed["contains_character"], p.character_frequency_map))

\* filter_by_nl once parse_nl_query has returned parsed or raised ValueError
filter_by_nl_parsed(s, query, parsed) ==
    IF parsed = ValueError
    THEN Response(400, Detail(ValueError.error))
    ELSE LET all_items == db_query_all(s)
             keep(i) == nl_matches(parsed, i)
             data == SelectSeq(all_items, keep)
         IN  Response(200,
                      [data |-> data, count |-> Len(data),
                       interpreted_query |->
                           [original |-> query, parsed_filters |-> parsed]])

filter_by_nl(s, query) ==
    CHOOSE r \in {filter_by_nl_parsed(s, query, parsed) :
                      parsed \in {parse_nl_query(query)}} : TRUE

(***************************************************************************)
(* Endpoint: Create / Analyze.  The handler reads the table (duplicate     *)
(* check), reads the clock and writes the table in three separate steps.   *)
(***************************************************************************)
Conflict == Response(409, Detail("String already exists in the system"))

PersistFailed == Response(500, Detail("Failed to persist string"))

BadValue == Response(422, Detail("\"value\" must be a string"))

\* create_string without its duplicate check
create_string_unchecked(s, body) ==
    IF ~body.is_str THEN [resp |-> BadValue, loc |-> NoLoc]
    ELSE LET props == analyze_string(body.value)
         IN  [resp |-> NoResp,
              loc  |-> [value |-> body.value, props |-> props,
                        id_ |-> props.sha256_hash]]

\* create_string up to the duplicate check: the response when the handler
\* ends there (NoResp when it goes on) and the locals it goes on with
create_string_check(s, body) ==
    IF ~body.is_str THEN [resp |-> BadValue, loc |-> NoLoc]
    ELSE LET value    == body.value
             props    == analyze_string(value)
             id_      == props.sha256_hash
             existing == db_get_by_id(s, id_)
         IN  IF existing # None
             THEN [resp |-> Conflict, loc |-> NoLoc]
             ELSE [resp |-> NoResp,
                   loc  |-> [value |-> value, props |-> props, id_ |-> id_]]

\* create_string from db_insert on: the table and the response
create_string_insert(s, l) ==
    LET r == db_insert(s, l.id_, l.value, l.props, l.created_at)
    IN  IF ~r.ok
        THEN [store |-> s, resp |-> PersistFailed]
        ELSE [store |-> r.store,
              resp  |-> Response(201, [ id         |-> l.id_,
                                        value      |-> l.value,
                                        properties |-> l.props,
                                        created_at |-> l.created_at ])]

(***************************************************************************)
(* Endpoint: Delete.  An identifier of 64 hex characters is deleted by id  *)
(* in one statement; any other is looked up by value and then deleted by   *)
(* the id found, in two.                                                   *)
(***************************************************************************)
NoContent == Response(204, None)

\* delete_string that does not look at the number of rows deleted
delete_string_by_id_unchecked(s, id_) ==
    [store |-> db_delete_by_id(s, id_).store, resp |-> NoContent]

\* delete_string from db_delete_by_id on: the table and the response
delete_string_by_id(s, id_) ==
    LET d == db_delete_by_id(s, id_)
    IN  IF d.changes = 0
        THEN [store |-> d.store, resp |-> NotFound]
        ELSE [store |-> d.store, resp |-> NoContent]

\* delete_string that looks its parameter up as a value first
delete_string_value_first(s, string_value) ==
    LET item == db_get_by_value(s, string_value)
    IN  IF item # None
        THEN [store |-> s, resp |-> NoResp, loc |-> [item |-> item]]
        ELSE IF is_sha256_hex(string_value)
             THEN LET d == delete_string_by_id(s, string_value)
                  IN  [store |-> d.store, resp |-> d.resp, loc |-> NoLoc]
             ELSE [store |-> s, resp |-> NotFound, loc |-> NoLoc]

\* delete_string up to its first statement on the table
delete_string_start(s, string_value) ==
    IF is_sha256_hex(string_value)
    THEN LET d == delete_string_by_id(s, string_value)
         IN  [store |-> d.store, resp |-> d.resp, loc |-> NoLoc]
    ELSE LET item == db_get_by_value(s, string_value)
         IN  IF item = None
             THEN [store |-> s, resp |-> NotFound, loc |-> NoLoc]
             ELSE [store |-> s, resp |-> NoResp, loc |-> [item |-> item]]

(***************************************************************************)
(* State machine.  pc[p] is where handler thread p stands: "idle", inside  *)
(* create_string ("stamp": before datetime.now, "insert": before           *)
(* db_insert), inside delete_string ("delete": before db_delete_by_id) or  *)
(* "done" with its response in resp[p].                                    *)
(***************************************************************************)
Init ==
    /\ store = <<>>
    /\ clock = 0
    /\ pc    = [p \in Procs |-> "idle"]
    /\ req   = [p \in Procs |-> NoReq]
    /\ loc   = [p \in Procs |-> NoLoc]
    /\ resp  = [p \in Procs |-> NoResp]

\* the wall clock advances
Tick ==
    /\ clock < MaxClock
    /\ clock' = clock + 1
    /\ UNCHANGED <<store, pc, req, loc, resp>>

\* handler p ends with response r
Finish(p, r) ==
    /\ pc'   = [pc EXCEPT ![p] = "done"]
    /\ resp' = [resp EXCEPT ![p] = r]
    /\ loc'  = [loc EXCEPT ![p] = NoLoc]

\* thread p takes a request of R that the router hands to create_string
CreateStart(p, R) ==
    /\ pc[p] = "idle"
    /\ \E r \in R :
          /\ Dispatch(r) = "create_string"
          /\ req' = [req EXCEPT ![p] = r]
          /\ LET c == create_string_check(store, r.body)
             IN  IF c.resp # NoResp
                 THEN Finish(p, c.resp)
                 ELSE /\ pc'  = [pc EXCEPT ![p] = "stamp"]
                      /\ loc' = [loc EXCEPT ![p] = c.loc]
                      /\ UNCHANGED resp
    /\ UNCHANGED <<store, clock>>

\* created_at = datetime.now(timezone.utc).isoformat()
CreateStamp(p) ==
    /\ pc[p] = "stamp"
    /\ pc'  = [pc EXCEPT ![p] = "insert"]
    /\ loc' = [loc EXCEPT ![p] =
                  [value |-> loc[p].value, props |-> loc[p].props,
                   id_ |-> loc[p].id_, created_at |-> clock]]
    /\ UNCHANGED <<store, clock, req, resp>>

CreateInsert(p) ==
    /\ pc[p] = "insert"
    /\ LET c == create_string_insert(store, loc[p])
       IN  /\ store' = c.store
           /\ Finish(p, c.resp)
    /\ UNCHANGED <<clock, req>>

\* thread p takes a request of R that the router hands to get_string
GetString(p, R) ==
    /\ pc[p] = "idle"
    /\ \E r \in R :
          /\ Dispatch(r) = "get_string"
          /\ req' = [req EXCEPT ![p] = r]
          /\ Finish(p, get_string(store, r.path[2]))
    /\ UNCHANGED <<store, clock>>

\* thread p takes a request of R that the router hands to delete_string
DeleteStart(p, R) ==
    /\ pc[p] = "idle"
    /\ \E r \in R :
          /\ Dispatch(r) = "delete_string"
          /\ req' = [req EXCEPT ![p] = r]
          /\ LET d == delete_string_start(store, r.path[2])
             IN  /\ store' = d.store
                 /\ IF d.resp # NoResp
                    THEN Finish(p, d.resp)
                    ELSE /\ pc'  = [pc EXCEPT ![p] = "delete"]
                         /\ loc' = [loc EXCEPT ![p] = d.loc]
                         /\ UNCHANGED resp
    /\ UNCHANGED clock

DeleteFinish(p) ==
    /\ pc[p] = "delete"
    /\ LET d == delete_string_by_id(store, loc[p].item.id)
       IN  /\ store' = d.store
           /\ Finish(p, d.resp)
    /\ UNCHANGED <<clock, req>>

\* thread p takes a request of R that the router hands to list_strings
ListStrings(p, R) ==
    /\ pc[p] = "idle"
    /\ \E r \in R :
          /\ Dispatch(r) = "list_strings"
          /\ req' = [req EXCEPT ![p] = r]
          /\ Finish(p, list_strings(store, r.params))
    /\ UNCHANGED <<store, clock>>

\* thread p runs the handler filter_by_nl on a phrase of a call of R
FilterByNl(p, R) ==
    /\ pc[p] = "idle"
    /\ \E r \in R :
          /\ r.method = "CALL"
          /\ req' = [req EXCEPT ![p] = r]
          /\ Finish(p, filter_by_nl(store, r.params.query))
    /\ UNCHANGED <<store, clock>>

\* the response leaves; the thread takes the next request
Respond(p) ==
    /\ pc[p] = "done"
    /\ pc'   = [pc EXCEPT ![p] = "idle"]
    /\ req'  = [req EXCEPT ![p] = NoReq]
    /\ resp' = [resp EXCEPT ![p] = NoResp]
    /\ UNCHANGED <<store, clock, loc>>

(***************************************************************************)
(* The requests clients send.                                              *)
(***************************************************************************)
\* every value, and the id of every value: what a client can name a record by
Identifiers(V) == V \cup {compute_sha256(v) : v \in V}

StoreRequests ==
    {PostString(v) : v \in StoreValues}
        \cup {GetReq(x) : x \in Identifiers(StoreValues)}
        \cup {DeleteReq(x) : x \in Identifiers(StoreValues)}

\* an optional parameter: the empty set (left out) or a singleton
Opt(S) == {{}} \cup {{x} : x \in S}

QueryInts == (-1)..MaxQueryInt

QueryChars == {<<"a">>, <<"A">>, <<"w">>, <<"a","b">>, <<>>}

\* the query dict of the parameters that are given
ParamsOf(pal, lo, hi, wc, ch) ==
    LET given == [is_palindrome |-> pal, min_length |-> lo, max_length |-> hi,
                  word_count |-> wc, contains_character |-> ch]
    IN  [k \in {x \in DOMAIN given : given[x] # {}} |->
            CHOOSE v \in given[k] : TRUE]

ListParams ==
    {ParamsOf(pal, lo, hi, wc, ch) :
        pal \in Opt(BOOLEAN), lo \in Opt(QueryInts), hi \in Opt(QueryInts),
        wc \in Opt(QueryInts), ch \in Opt(QueryChars)}

\* the pieces phrases are made of
\* "all single word palindromic strings" (src/tests/test_api.py:69)
F_test ==
    <<"a","l","l"," ","s","i","n","g","l","e"," ","w","o","r","d"," ","p","a",
    "l","i","n","d","r","o","m","i","c"," ","s","t","r","i","n","g","s">>
\* "single word "
F_single_word ==
    <<"s","i","n","g","l","e"," ","w","o","r","d"," ">>
\* "single-word "
F_single_hyphen_word ==
    <<"s","i","n","g","l","e","-","w","o","r","d"," ">>
\* "palindromic strings "
F_palindromic ==
    <<"p","a","l","i","n","d","r","o","m","i","c"," ","s","t","r","i","n","g",
    "s"," ">>
\* "longer than 1"
F_longer_than_1 ==
    <<"l","o","n","g","e","r"," ","t","h","a","n"," ","1">>
\* "0"
F_0 ==
    <<"0">>
\* " characters "
F_characters ==
    <<" ","c","h","a","r","a","c","t","e","r","s"," ">>
\* "containing the letter c "
F_letter_c ==
    <<"c","o","n","t","a","i","n","i","n","g"," ","t","h","e"," ","l","e","t",
    "t","e","r"," ","c"," ">>
\* "containing the letter z "
F_letter_z ==
    <<"c","o","n","t","a","i","n","i","n","g"," ","t","h","e"," ","l","e","t",
    "t","e","r"," ","z"," ">>
\* "that contain the letter z "
F_contain_z ==
    <<"t","h","a","t"," ","c","o","n","t","a","i","n"," ","t","h","e"," ","l",
    "e","t","t","e","r"," ","z"," ">>
\* "containing z "
F_containing_z ==
    <<"c","o","n","t","a","i","n","i","n","g"," ","z"," ">>
\* "the first vowel "
F_first_vowel ==
    <<"t","h","e"," ","f","i","r","s","t"," ","v","o","w","e","l"," ">>
\* "xyzzy plugh"
F_xyzzy ==
    <<"x","y","z","z","y"," ","p","l","u","g","h">>
\* "Containing The Letter Q "
F_Letter_Q ==
    <<"C","o","n","t","a","i","n","i","n","g"," ","T","h","e"," ","L","e","t",
    "t","e","r"," ","Q"," ">>
\* " "
F_space ==
    <<" ">>
\* "longer than "
F_longer_than ==
    <<"l","o","n","g","e","r"," ","t","h","a","n"," ">>
\* "longer than 2 characters"
F_longer_than_2_characters ==
    <<"l","o","n","g","e","r"," ","t","h","a","n"," ","2"," ","c","h","a","r",
    "a","c","t","e","r","s">>

Fragments ==
    <<F_test, F_single_word, F_single_hyphen_word, F_palindromic,
      F_longer_than_1, F_0, F_characters, F_letter_c, F_letter_z, F_contain_z,
      F_containing_z, F_first_vowel, F_xyzzy, F_Letter_Q, F_space,
      F_longer_than, F_longer_than_2_characters>>

RECURSIVE Concat(_)
Concat(ss) == IF ss = <<>> THEN <<>> ELSE Head(ss) \o Concat(Tail(ss))

\* the phrases: up to MaxPhraseFrags fragments, run together
Phrases ==
    {Concat(fs) : fs \in UNION {[1..n -> Range(Fragments)] : n \in 0..MaxPhraseFrags}}

QueryRequests ==
    {PostString(v) : v \in QueryValues}
        \cup {PostNumber}
        \cup {DeleteReq(v) : v \in QueryValues}
        \cup {ListReq(ps) : ps \in ListParams}
        \cup {NlReq(ph) : ph \in Phrases}

\* filter_by_nl called with a phrase
NlCall(phrase) ==
    [method |-> "CALL", path |-> <<>>, body |-> None,
     params |-> [query |-> phrase]]

NlRequests ==
    {PostString(v) : v \in NlValues} \cup {NlCall(ph) : ph \in Phrases}

(***************************************************************************)
(* Spec: the handler threads of Procs serve create, get and delete        *)
(* requests on the values of StoreValues and their ids, interleaved at the *)
(* statements on the table.                                                *)
(***************************************************************************)
Next ==
    \/ Tick
    \/ \E p \in Procs :
          \/ CreateStart(p, StoreRequests)
          \/ GetString(p, StoreRequests)
          \/ DeleteStart(p, StoreRequests)
          \/ CreateStamp(p)
          \/ CreateInsert(p)
          \/ DeleteFinish(p)
          \/ Respond(p)

Spec == Init /\ [][Next]_vars

(***************************************************************************)
(* SpecQuery: one client sends HTTP requests one at a time: it creates and *)
(* deletes the values of QueryValues, lists with every combination of      *)
(* query parameters, and requests the natural-language route.              *)
(***************************************************************************)
\* the one handler thread that serves the client
Client == CHOOSE p \in Procs : \A q \in Procs : p <= q

NextQuery ==
    \/ CreateStart(Client, QueryRequests)
    \/ GetString(Client, QueryRequests)
    \/ DeleteStart(Client, QueryRequests)
    \/ ListStrings(Client, QueryRequests)
    \/ CreateStamp(Client)
    \/ CreateInsert(Client)
    \/ DeleteFinish(Client)
    \/ Respond(Client)

SpecQuery == Init /\ [][NextQuery]_vars

(***************************************************************************)
(* SpecNL: one caller creates the values of NlValues and runs the handler  *)
(* filter_by_nl on every phrase.                                           *)
(***************************************************************************)
NextNL ==
    \/ CreateStart(Client, NlRequests)
    \/ FilterByNl(Client, NlRequests)
    \/ CreateStamp(Client)
    \/ CreateInsert(Client)
    \/ Respond(Client)

SpecNL == Init /\ [][NextNL]_vars


(***************************************************************************)
(* Properties.                                                             *)
(***************************************************************************)
\* the positions of the rows of table s that have id x, and that have value x
RowsWithId(s, x) == {i \in 1..Len(s) : s[i].id = x}

RowsWithValue(s, x) == {i \in 1..Len(s) : s[i].value = x}

\* thread p has just been handed the request it holds in the next state
Starts(p, method) ==
    /\ pc[p] = "idle"
    /\ pc'[p] # "idle"
    /\ req'[p].method = method

\* thread p ends its handler in this step
Ends(p) == pc[p] # "done" /\ pc'[p] = "done"

\* C1: in every reachable state, whatever creates and deletes ran and however
\* they interleaved, no two rows of the table have the same id and no two
\* rows have the same value.
C1_NoTwoRecordsAlike ==
    \A i, j \in 1..Len(store) :
        i # j => store[i].id # store[j].id /\ store[i].value # store[j].value

\* C1 witness: two creates of one value raced, one was refused by the table,
\* and the table holds that value beside another one.
C1_Witness ==
    /\ Len(store) = 2
    /\ \E p, q \in Procs :
          /\ p # q
          /\ pc[p] = "done" /\ pc[q] = "done"
          /\ req[p] = req[q]
          /\ req[p].method = "POST"
          /\ resp[p].status = 201
          /\ resp[q] = PersistFailed

\* C2: a create of a value whose id is in the table when the request arrives
\* ends at once with 409 and leaves the table as it was, row for row.
C2_DuplicateCreateRejected ==
    [][\A p \in Procs :
          (/\ Starts(p, "POST")
           /\ RowsWithId(store, compute_sha256(req'[p].body.value)) # {})
          => /\ pc'[p] = "done"
             /\ resp'[p] = Conflict
             /\ store' = store]_vars

\* C2 witness: a create was answered 409 while the record it duplicates, made
\* at an earlier clock reading, is in the table.
C2_Witness ==
    \E p \in Procs :
        /\ pc[p] = "done"
        /\ req[p].method = "POST"
        /\ resp[p] = Conflict
        /\ clock = MaxClock
        /\ \E i \in RowsWithValue(store, req[p].body.value) :
              store[i].created_at < clock

\* C3: when a create reaches its insert and a racing create of the same value
\* has written the row since the duplicate check, the create observes
\* DuplicateRecord (409) and writes nothing; a create that succeeds found the
\* id absent and adds exactly one row with it.
C3_RacingCreateObservesDuplicate ==
    [][\A p \in Procs :
          (pc[p] = "insert" /\ Ends(p))
          => IF RowsWithId(store, loc[p].id_) # {}
             THEN resp'[p] = Conflict /\ store' = store
             ELSE /\ resp'[p].status = 201
                  /\ Cardinality(RowsWithId(store', loc[p].id_)) = 1]_vars

\* the identifier of the GET or DELETE request thread p holds in the next state
Identifier(p) == req'[p].path[2]

\* thread p answers a GET in this step
Gets(p) == Starts(p, "GET") /\ Ends(p)

\* C4 as claimed: a GET by the value of a stored record, and a GET by its id,
\* are both answered 200 with that record.
C4_RoundTripEveryValue ==
    [][\A p \in Procs :
          Gets(p)
          => \A i \in RowsWithValue(store, Identifier(p))
                   \cup RowsWithId(store, Identifier(p)) :
                resp'[p] = Response(200, RowDict(store[i]))]_vars

\* C4 amended: a GET by the id of a stored record is answered 200 with that
\* record, and so is a GET by its value unless the value is a text of 64 hex
\* characters, which is looked up as an id.
C4_RoundTrip ==
    [][\A p \in Procs :
          Gets(p)
          => /\ \A i \in RowsWithId(store, Identifier(p)) :
                   resp'[p] = Response(200, RowDict(store[i]))
             /\ ~is_sha256_hex(Identifier(p))
                   => \A i \in RowsWithValue(store, Identifier(p)) :
                         resp'[p] = Response(200, RowDict(store[i]))]_vars

\* C4 witness: one thread got "level" by value, the other by id, and both hold
\* the same record.
C4_Witness ==
    \E p, q \in Procs :
        /\ pc[p] = "done" /\ pc[q] = "done"
        /\ req[p] = GetReq(V_level)
        /\ req[q] = GetReq(H_level)
        /\ resp[p].status = 200
        /\ resp[p] = resp[q]
        /\ resp[p].body.value = V_level

\* thread p ends a DELETE with success in this step
DeleteSucceeds(p) ==
    /\ Ends(p)
    /\ req'[p].method = "DELETE"
    /\ resp'[p] = NoContent

\* a create writes its row in this step
CreateSucceeds == \E p \in Procs : Ends(p) /\ resp'[p].status = 201

\* GET by value v and GET by the id of v would both be answered 404 on table s
Gone(s, v) ==
    /\ get_string(s, v) = NotFound
    /\ get_string(s, compute_sha256(v)) = NotFound

\* C5 as claimed: once a DELETE named by a stored value v has succeeded, GET v
\* and GET sha256(v) are answered 404, and stay so until a create succeeds.
C5_DeleteThenGetEveryValue ==
    [][/\ \A p \in Procs :
             (DeleteSucceeds(p) /\ RowsWithValue(store, Identifier(p)) # {})
             => Gone(store', Identifier(p))
       /\ \A v \in StoreValues :
             (Gone(store, v) /\ ~CreateSucceeds) => Gone(store', v)]_vars

\* C5 amended: the same for every stored value v that is not a text of 64 hex
\* characters (a DELETE named by such a text removes the record with that id,
\* not the one with that value).
C5_DeleteThenGet ==
    [][/\ \A p \in Procs :
             (/\ DeleteSucceeds(p)
              /\ RowsWithValue(store, Identifier(p)) # {}
              /\ ~is_sha256_hex(Identifier(p)))
             => Gone(store', Identifier(p))
       /\ \A v \in StoreValues :
             (Gone(store, v) /\ ~CreateSucceeds) => Gone(store', v)]_vars

\* C5 witness: "level" was deleted by value with success while another record
\* stays, and a GET by its id was answered 404.
C5_Witness ==
    \E p, q \in Procs :
        /\ pc[p] = "done" /\ pc[q] = "done"
        /\ req[p] = DeleteReq(V_level)
        /\ resp[p] = NoContent
        /\ req[q] = GetReq(H_level)
        /\ resp[q] = NotFound
        /\ Len(store) = 1

\* no row of table s has x as its id or as its value
Unknown(s, x) == RowsWithId(s, x) = {} /\ RowsWithValue(s, x) = {}

\* C10: a DELETE whose identifier names no row, neither by id nor by value,
\* when the handler looks it up or when it deletes, is answered 404 and leaves
\* the table as it was.
C10_DeleteUnknownIsNotFound ==
    [][\A p \in Procs :
          (/\ Starts(p, "DELETE") \/ (pc[p] = "delete" /\ Ends(p))
           /\ Unknown(store, Identifier(p)))
          => /\ pc'[p] = "done"
             /\ resp'[p] = NotFound
             /\ store' = store]_vars

\* C10 witness: a DELETE by value found its record, a racing DELETE removed it
\* first, and both are answered: one 204, the other 404.
C10_Witness ==
    \E p, q \in Procs :
        /\ pc[p] = "done" /\ pc[q] = "done"
        /\ req[p] = DeleteReq(V_level)
        /\ req[q] = DeleteReq(H_level)
        /\ resp[p] = NotFound
        /\ resp[q] = NoContent
        /\ Unknown(store, V_level)

\* The six rules of the translator, on the phrase trimmed and lowercased.
Trimmed(phrase) == str_lower(str_strip(phrase))

Rule1(ql) ==
    str_contains(ql, T_single_word) \/ str_contains(ql, T_single_hyphen_word)

Rule2(ql) == str_contains(ql, T_palindrom)

\* "longer than <N>": the words, then at least one digit
Rule3(ql) ==
    \E i \in 1..Len(ql) :
        /\ MatchAt(ql, T_longer_than, i)
        /\ i + Len(T_longer_than) <= Len(ql)
        /\ IsDigit(ql[i + Len(T_longer_than)])

\* the places of ql where "containing the letter <c>" occurs, c a word character
Rule4Places(ql) ==
    {j \in 1..(Len(ql) - Len(T_containing_the_letter)) :
        /\ MatchAt(ql, T_containing_the_letter, j)
        /\ IsWordChar(ql[j + Len(T_containing_the_letter)])}

Rule4(ql) == Rule4Places(ql) # {}

\* the letter c of the first such place
Rule4Letter(ql) ==
    ql[(CHOOSE j \in Rule4Places(ql) : \A k \in Rule4Places(ql) : j <= k)
       + Len(T_containing_the_letter)]

Rule5(ql) ==
    \/ str_contains(ql, T_containing_the_letter_z)
    \/ str_contains(ql, T_contain_the_letter_z)
    \/ str_contains(ql, T_containing_z)

Rule6(ql) == str_contains(ql, T_first_vowel)

AnyRule(ql) ==
    Rule1(ql) \/ Rule2(ql) \/ Rule3(ql) \/ Rule4(ql) \/ Rule5(ql) \/ Rule6(ql)

\* the client holds the answer to a request for the natural-language route
NlAnswered ==
    /\ pc[Client] = "done"
    /\ req[Client].method = "GET"
    /\ req[Client].path = <<S_strings, S_filter_by_natural_language>>

\* C6: a GET of /strings/filter-by-natural-language whose phrase triggers a
\* rule is answered 200 with the parsed filters of the phrase, whatever the
\* table holds.
C6_NlRouteAnswersParsedFilters ==
    (NlAnswered /\ AnyRule(Trimmed(req[Client].params.query)))
    => /\ resp[Client].status = 200
       /\ "interpreted_query" \in DOMAIN resp[Client].body
       /\ resp[Client].body.interpreted_query.parsed_filters
              = parse_nl_query(req[Client].params.query)

\* the client holds the answer 200 to a GET of /strings
ListAnswered ==
    /\ pc[Client] = "done"
    /\ req[Client].method = "GET"
    /\ req[Client].path = <<S_strings>>
    /\ resp[Client].status = 200

\* every constraint present in predicate ps holds of the properties p
Holds(ps, p) ==
    /\ "is_palindrome" \in DOMAIN ps => p.is_palindrome = ps["is_palindrome"]
    /\ "min_length" \in DOMAIN ps => p.length >= ps["min_length"]
    /\ "max_length" \in DOMAIN ps => p.length <= ps["max_length"]
    /\ "word_count" \in DOMAIN ps => p.word_count = ps["word_count"]
    /\ "contains_character" \in DOMAIN ps
          => \E c \in DOMAIN p.character_frequency_map :
                ps["contains_character"] = <<c>>

\* the k-th smallest element of the set of numbers S
Nth(S, k) == CHOOSE i \in S : Cardinality({j \in S : j <= i}) = k

\* C7: the records a list request returns are exactly the rows of the table
\* whose properties satisfy every constraint of the query, in table order,
\* and count is their number; with no constraint they are all the rows.
C7_ListReturnsExactlyTheMatches ==
    ListAnswered
    => LET ps   == req[Client].params
           data == resp[Client].body.data
           hits == {i \in 1..Len(store) :
                       Holds(ps, analyze_string(store[i].value))}
       IN  /\ Len(data) = Cardinality(hits)
           /\ resp[Client].body.count = Cardinality(hits)
           /\ \A k \in 1..Len(data) : data[k] = RowDict(store[Nth(hits, k)])
           /\ DOMAIN ps = {} => Len(data) = Len(store)

\* C7 witness: a list request with two constraints returned the first and the
\* third of three rows.
C7_Witness ==
    /\ ListAnswered
    /\ Len(store) = 3
    /\ Cardinality(DOMAIN req[Client].params) = 2
    /\ resp[Client].body.count = 2
    /\ resp[Client].body.data = <<RowDict(store[1]), RowDict(store[3])>>

\* the caller holds the answer of filter_by_nl to a phrase
NlCalled == pc[Client] = "done" /\ req[Client].method = "CALL"

\* the parsed filters of that answer
ParsedFilters == resp[Client].body.interpreted_query.parsed_filters

\* C8 as claimed: of the rules that set contains_character, the later in the
\* order 4, 5, 6 wins: rules 4 and 6 together give 'a', rule 4 with a letter
\* other than z together with rule 5 gives 'z'.
C8_LaterRuleWins ==
    (NlCalled /\ resp[Client].status = 200)
    => LET ql == Trimmed(req[Client].params.query)
       IN  /\ (Rule4(ql) /\ Rule6(ql))
                 => ParsedFilters["contains_character"] = <<"a">>
           /\ (Rule4(ql) /\ Rule4Letter(ql) # "z" /\ Rule5(ql) /\ ~Rule6(ql))
                 => ParsedFilters["contains_character"] = <<"z">>
           /\ (Rule5(ql) /\ Rule6(ql) /\ ~Rule4(ql))
                 => ParsedFilters["contains_character"] = <<"a">>

\* C8 amended: the letter of rule 4 wins over rules 5 and 6 (its block runs
\* again after rule 6), and rule 6 wins over rule 5: rules 4 and 6 together
\* give the letter of rule 4, rule 4 together with rule 5 gives the letter of
\* rule 4, rules 5 and 6 without rule 4 give 'a', rule 5 alone gives 'z'.
C8_LetterRuleWins ==
    (NlCalled /\ resp[Client].status = 200)
    => LET ql == Trimmed(req[Client].params.query)
       IN  /\ Rule4(ql)
                 => ParsedFilters["contains_character"] = <<Rule4Letter(ql)>>
           /\ (Rule6(ql) /\ ~Rule4(ql))
                 => ParsedFilters["contains_character"] = <<"a">>
           /\ (Rule5(ql) /\ ~Rule6(ql) /\ ~Rule4(ql))
                 => ParsedFilters["contains_character"] = <<"z">>

\* C8 witness: a phrase with "containing the letter c" and "first vowel" was
\* parsed to contains_character = 'c'.
C8_Witness ==
    /\ NlCalled
    /\ resp[Client].status = 200
    /\ Rule4(Trimmed(req[Client].params.query))
    /\ Rule6(Trimmed(req[Client].params.query))
    /\ ParsedFilters["contains_character"] = <<"c">>

\* C9: filter_by_nl answers 400 with the parse error, and no result set,
\* exactly when no rule fires on the phrase trimmed and lowercased; otherwise
\* it answers 200 with a predicate that has at least one field.
C9_UnparseableIffNoRuleFires ==
    NlCalled
    => IF AnyRule(Trimmed(req[Client].params.query))
       THEN /\ resp[Client].status = 200
            /\ DOMAIN ParsedFilters # {}
       ELSE /\ resp[Client].status = 400
            /\ resp[Client].body = Detail(ValueError.error)

\* C9 witness: "xyzzy plugh" was answered 400 while the table holds records.
C9_Witness ==
    /\ NlCalled
    /\ req[Client].params.query = F_xyzzy
    /\ resp[Client].status = 400
    /\ Len(store) > 0

(***************************************************************************)
(* SpecLife: the handler threads of Procs serve every kind of request at   *)
(* once: creates, gets and deletes on the values of StoreValues and their  *)
(* ids, list requests, and calls of filter_by_nl.                          *)
(***************************************************************************)
LifeRequests ==
    StoreRequests
        \cup {ListReq([is_palindrome |-> TRUE])}
        \cup {NlCall(F_test)}

NextLife ==
    \/ Tick
    \/ \E p \in Procs :
          \/ CreateStart(p, LifeRequests)
          \/ GetString(p, LifeRequests)
          \/ DeleteStart(p, LifeRequests)
          \/ ListStrings(p, LifeRequests)
          \/ FilterByNl(p, LifeRequests)
          \/ CreateStamp(p)
          \/ CreateInsert(p)
          \/ DeleteFinish(p)
          \/ Respond(p)

SpecLife == Init /\ [][NextLife]_vars

\* the id the DELETE of thread p that ends in this step deletes by: the id of
\* the item it looked up by value, or its identifier of 64 hex characters
DeletedId(p) == IF pc[p] = "delete" THEN loc[p].item.id ELSE Identifier(p)

\* C11: in every step, whatever the threads do (get, list, phrase query,
\* failed create, create of another value, delete of another record), every
\* row of the table is still in the table with the same id, value, properties
\* and created_at, unless the step is a DELETE that succeeds and deletes by
\* the id of that row.
C11_RecordsStayUntilDeleted ==
    [][\A i \in 1..Len(store) :
          \/ \E j \in 1..Len(store') : store'[j] = store[i]
          \/ \E p \in Procs :
                DeleteSucceeds(p) /\ DeletedId(p) = store[i].id]_vars

\* C11 witness: the record of "level", made at an earlier clock reading, is
\* in the table unchanged after a create of "level" was refused and the only
\* other record was deleted.
C11_Witness ==
    /\ clock = MaxClock
    /\ Len(store) = 1
    /\ store[1].value = V_level
    /\ store[1].id = H_level
    /\ store[1].created_at < clock
    /\ \E p, q \in Procs :
          /\ pc[p] = "done" /\ pc[q] = "done"
          /\ req[p] = PostString(V_level)
          /\ resp[p] = Conflict
          /\ req[q] = DeleteReq(HH_level)
          /\ resp[q] = NoContent

\* the client holds the answer to a GET of /strings
ListRequested ==
    /\ pc[Client] = "done"
    /\ req[Client].method = "GET"
    /\ req[Client].path = <<S_strings>>

\* a query with a negative number, or a contains_character that is not one
\* character
InvalidQuery(ps) ==
    \/ \E k \in {"min_length", "max_length", "word_count"} \cap DOMAIN ps :
          ps[k] < 0
    \/ /\ "contains_character" \in DOMAIN ps
       /\ Len(ps["contains_character"]) # 1

\* constraint k of query ps fails on the properties p
Fails(ps, k, p) == ~Holds([x \in {k} |-> ps[x]], p)

\* C12: a list request with a negative min_length, max_length or word_count,
\* or a contains_character that is not exactly one character, is answered
\* with the validation error and no records, whatever the table holds; every
\* other list request is answered 200, and each row it leaves out fails a
\* constraint that is present in the query (an absent input excludes nothing).
C12_InvalidQueryRejected ==
    ListRequested
    => LET ps == req[Client].params
       IN  IF InvalidQuery(ps)
           THEN resp[Client] = Unprocessable
           ELSE /\ resp[Client].status = 200
                /\ \A i \in 1..Len(store) :
                      (\A k \in 1..Len(resp[Client].body.data) :
                          resp[Client].body.data[k].id # store[i].id)
                      => \E c \in DOMAIN ps :
                            Fails(ps, c, analyze_string(store[i].value))

\* C12 witness: a list request whose only fault is a contains_character of
\* two characters was refused while the table holds records.
C12_Witness ==
    /\ ListRequested
    /\ Len(store) > 0
    /\ DOMAIN req[Client].params = {"contains_character", "min_length"}
    /\ req[Client].params["contains_character"] = <<"a", "b">>
    /\ req[Client].params["min_length"] = 0
    /\ resp[Client] = Unprocessable

\* the places of ql where "longer than <N>" occurs, N a run of digits
LongerThanPlaces(ql) ==
    {i \in 1..Len(ql) :
        /\ MatchAt(ql, T_longer_than, i)
        /\ DigitsEnd(ql, i + Len(T_longer_than)) > i + Len(T_longer_than)}

\* those of them where " characters" follows the digits
LongerThanCharactersPlaces(ql) ==
    {i \in LongerThanPlaces(ql) :
        MatchAt(ql, T_characters, DigitsEnd(ql, i + Len(T_longer_than)))}

\* the number N of the occurrence at place i: the whole run of digits
NumberAt(ql, i) ==
    ParseInt(SubSeq(ql, i + Len(T_longer_than),
                    DigitsEnd(ql, i + Len(T_longer_than)) - 1))

\* the record of table row r is among the records of the answer
Returned(r) ==
    \E k \in 1..Len(resp[Client].body.data) :
        resp[Client].body.data[k] = RowDict(r)

\* C13 as claimed: for every occurrence of "longer than N" in the phrase,
\* the parsed filters have min_length = N + 1.
C13_EveryLongerThan ==
    (NlCalled /\ resp[Client].status = 200)
    => LET ql == Trimmed(req[Client].params.query)
       IN  \A i \in LongerThanPlaces(ql) :
              ParsedFilters["min_length"] = NumberAt(ql, i) + 1

\* C13 amended: when "longer than N" occurs in the phrase, min_length is
\* N + 1 for the N of the first occurrence that is followed by
\* " characters", and of the first occurrence when none is; a row shorter
\* than min_length is left out and, when min_length is the only filter, every
\* other row is returned; without an occurrence min_length is not set, and
\* max_length is never set.
C13_LongerThan ==
    (NlCalled /\ resp[Client].status = 200)
    => LET ql   == Trimmed(req[Client].params.query)
           any  == LongerThanPlaces(ql)
           with == LongerThanCharactersPlaces(ql)
       IN  /\ "max_length" \notin DOMAIN ParsedFilters
           /\ any = {} => "min_length" \notin DOMAIN ParsedFilters
           /\ any # {}
                 => /\ ParsedFilters["min_length"]
                         = NumberAt(ql, Leftmost(IF with # {} THEN with ELSE any))
                           + 1
                    /\ \A i \in 1..Len(store) :
                          /\ Len(store[i].value) < ParsedFilters["min_length"]
                                => ~Returned(store[i])
                          /\ (/\ DOMAIN ParsedFilters = {"min_length"}
                              /\ Len(store[i].value)
                                    >= ParsedFilters["min_length"])
                                => Returned(store[i])

\* C13 witness: "longer than 1longer than 2 characters" was parsed to
\* min_length = 3; of the rows "a" and "hello world" the second is returned.
C13_Witness ==
    /\ NlCalled
    /\ req[Client].params.query = F_longer_than_1 \o F_longer_than_2_characters
    /\ resp[Client].status = 200
    /\ ParsedFilters = [min_length |-> 3]
    /\ Len(store) = 2
    /\ \E i, j \in 1..2 :
          /\ store[i].value = V_a
          /\ store[j].value = V_hello_world
          /\ resp[Client].body.data = <<RowDict(store[j])>>

\* C14: whenever filter_by_nl has answered a phrase with parsed filters P,
\* list_strings called on the same table with the fields of P as its query
\* parameters is answered 200 with the same records in the same order and
\* the same count.
C14_FrontEndsSelectAlike ==
    (NlCalled /\ resp[Client].status = 200)
    => LET listed == list_strings(store, ParsedFilters)
       IN  /\ listed.status = 200
           /\ listed.body.data = resp[Client].body.data
           /\ listed.body.count = resp[Client].body.count
           /\ listed.body.filters_applied = ParsedFilters

\* C14 witness: "all single word palindromic strings" selected "a" and left
\* out "hello world", through two parsed filters.
C14_Witness ==
    /\ NlCalled
    /\ req[Client].params.query = F_test
    /\ resp[Client].status = 200
    /\ DOMAIN ParsedFilters = {"word_count", "is_palindrome"}
    /\ Len(store) = 2
    /\ resp[Client].body.count = 1
    /\ resp[Client].body.data[1].value = V_a

\* the rows of table s that identifier x resolves to: by id when x is a text
\* of 64 hex characters, by value otherwise
Resolved(s, x) ==
    IF is_sha256_hex(x) THEN RowsWithId(s, x) ELSE RowsWithValue(s, x)

\* C15: a GET is answered 404 exactly when its identifier resolves to no row
\* (by id for 64 hex characters, by value otherwise; never the other way),
\* and else 200 with a row it resolves to.  A DELETE resolves alike: it is
\* answered 404 at once exactly when the identifier resolves to no row; with
\* 64 hex characters it removes the rows with that id and no other, and
\* otherwise it goes on to delete by the id of a row with that value.
C15_IdentifierResolution ==
    [][\A p \in Procs :
          /\ Gets(p)
                => IF Resolved(store, Identifier(p)) = {}
                   THEN resp'[p] = NotFound
                   ELSE /\ resp'[p].status = 200
                        /\ \E i \in Resolved(store, Identifier(p)) :
                              resp'[p].body = RowDict(store[i])
                        /\ IF is_sha256_hex(Identifier(p))
                           THEN resp'[p].body.id = Identifier(p)
                           ELSE resp'[p].body.value = Identifier(p)
          /\ Starts(p, "DELETE")
                => IF Resolved(store, Identifier(p)) = {}
                   THEN resp'[p] = NotFound /\ store' = store
                   ELSE IF is_sha256_hex(Identifier(p))
                        THEN /\ resp'[p] = NoContent
                             /\ \A i \in 1..Len(store) :
                                   (\E j \in 1..Len(store') :
                                       store'[j] = store[i])
                                   <=> store[i].id # Identifier(p)
                        ELSE /\ pc'[p] = "delete"
                             /\ store' = store
                             /\ loc'[p].item.value = Identifier(p)]_vars

\* C15 witness: a GET of sha256("level") was answered 404 although a record
\* with that text as its value is stored, and a GET of "level" on the other
\* thread was answered 404 too.
C15_Witness ==
    \E p, q \in Procs :
        /\ pc[p] = "done" /\ pc[q] = "done"
        /\ req[p] = GetReq(H_level)
        /\ resp[p] = NotFound
        /\ req[q] = GetReq(V_level)
        /\ resp[q] = NotFound
        /\ RowsWithValue(store, H_level) # {}
        /\ Len(store) = 1

(***************************************************************************)
(* SpecAnalyze: one client has one text analyzed at a time: it posts a     *)
(* text of up to MaxTextLen characters over Alphabet (the empty text       *)
(* included) to an empty table, gets it by value and by id, and deletes    *)
(* it.                                                                     *)
(***************************************************************************)
AnalyzeValues == UNION {[1..n -> Alphabet] : n \in 0..MaxTextLen}

AnalyzeRequests ==
    {PostString(v) : v \in AnalyzeValues}
        \cup {GetReq(x) : x \in Identifiers(AnalyzeValues)}
        \cup {DeleteReq(x) : x \in Identifiers(AnalyzeValues)}

NextAnalyze ==
    \/ store = <<>> /\ CreateStart(Client, AnalyzeRequests)
    \/ GetString(Client, AnalyzeRequests)
    \/ DeleteStart(Client, AnalyzeRequests)
    \/ CreateStamp(Client)
    \/ CreateInsert(Client)
    \/ DeleteFinish(Client)
    \/ Respond(Client)

SpecAnalyze == Init /\ [][NextAnalyze]_vars

\* the sum of the values of dict d
RECURSIVE SumValues(_)
SumValues(d) ==
    IF DOMAIN d = {} THEN 0
    ELSE LET k == CHOOSE x \in DOMAIN d : TRUE
         IN  d[k] + SumValues([x \in DOMAIN d \ {k} |-> d[x]])

\* the property set p is sound for the value s stored under id x
SoundProperties(s, x, p) ==
    /\ p.length = Len(s)
    /\ p.unique_characters <= p.length
    /\ SumValues(p.character_frequency_map) = p.length
    /\ \A ch \in DOMAIN p.character_frequency_map :
          p.character_frequency_map[ch] >= 1
    /\ Cardinality(DOMAIN p.character_frequency_map) = p.unique_characters
    /\ p.sha256_hash = x
    /\ s = <<>> => p.length = 0 /\ p.word_count = 0 /\ p.is_palindrome

\* C16: the properties of every stored record, and of every record a create
\* returns, have unique_characters <= length, frequency counts that are all
\* at least 1 and sum to length, as many map keys as unique characters, and
\* sha256_hash equal to the record's id; for the empty text they are length
\* 0, word_count 0 and is_palindrome true.
C16_AnalyzeIsSound ==
    /\ \A i \in 1..Len(store) :
          SoundProperties(store[i].value, store[i].id,
                          json_loads(store[i].properties))
    /\ (pc[Client] = "done" /\ resp[Client].status = 201)
          => SoundProperties(req[Client].body.value, resp[Client].body.id,
                             resp[Client].body.properties)

\* C16 witness: the empty text was created and is stored under the digest of
\* the empty text.
C16_Witness ==
    /\ pc[Client] = "done"
    /\ req[Client] = PostString(<<>>)
    /\ resp[Client].status = 201
    /\ resp[Client].body.properties.unique_characters = 0
    /\ Len(store) = 1
    /\ store[1].value = <<>>
    /\ store[1].id = TextDigests[1][2]

\* table s without its row i
WithoutRow(s, i) == SubSeq(s, 1, i - 1) \o SubSeq(s, i + 1, Len(s))

\* C17: a DELETE that succeeds removes exactly one row and leaves the others
\* as they were, in their order; the row removed has the identifier as its
\* id when the identifier is a text of 64 hex characters (whether or not
\* another row has it as its value), and as its value otherwise.
C17_DeleteRemovesExactlyOne ==
    [][\A p \in Procs :
          DeleteSucceeds(p)
          => \E i \in 1..Len(store) :
                /\ store' = WithoutRow(store, i)
                /\ IF is_sha256_hex(Identifier(p))
                   THEN store[i].id = Identifier(p)
                   ELSE store[i].value = Identifier(p)]_vars

\* C17 witness: with "level" and the text sha256("level") both stored as
\* values, a DELETE of sha256("level") succeeded and the record whose value
\* is that text is the one that stays; a DELETE of "level" then found
\* nothing.
C17_Witness ==
    \E p, q \in Procs :
        /\ pc[p] = "done" /\ pc[q] = "done"
        /\ req[p] = DeleteReq(H_level)
        /\ resp[p] = NoContent
        /\ req[q] = DeleteReq(V_level)
        /\ resp[q] = NotFound
        /\ Len(store) = 1
        /\ store[1].value = H_level
        /\ store[1].id = HH_level

(***************************************************************************)
(* SpecRace: the table holds a record of every value of RaceValues, in     *)
(* any order and made at any clock reading; each of the two handler        *)
(* threads serves one DELETE, by value or by id, and nothing is created.   *)
(***************************************************************************)
\* the values of StoreValues, which the requests name, and "noon"
RaceValues == StoreValues \cup {V_noon}

\* the row create_string writes for value v at clock reading t
CreatedRow(v, t) ==
    [ id         |-> analyze_string(v).sha256_hash,
      value      |-> v,
      properties |-> json_dumps(analyze_string(v)),
      created_at |-> t ]

\* the tables with one row for each value of V
TablesOf(V) ==
    {s \in [1..Cardinality(V) -> {CreatedRow(v, t) : v \in V, t \in 0..MaxClock}] :
        \A i, j \in DOMAIN s : i # j => s[i].value # s[j].value}

RaceRequests == {DeleteReq(x) : x \in Identifiers(StoreValues)}

InitRace ==
    /\ store \in TablesOf(RaceValues)
    /\ clock = MaxClock
    /\ pc    = [p \in Procs |-> "idle"]
    /\ req   = [p \in Procs |-> NoReq]
    /\ loc   = [p \in Procs |-> NoLoc]
    /\ resp  = [p \in Procs |-> NoResp]

NextRace ==
    \E p \in Procs :
        \/ DeleteStart(p, RaceRequests)
        \/ DeleteFinish(p)

SpecRace == InitRace /\ [][NextRace]_vars

\* both threads hold the answer to a DELETE of the same value, looked up by
\* value
BothDeleted(p, q) ==
    /\ p # q
    /\ pc[p] = "done" /\ pc[q] = "done"
    /\ req[p] = req[q]
    /\ ~is_sha256_hex(req[p].path[2])

\* C18: when both threads have answered a DELETE of the same stored value,
\* each by lookup by value and then delete by id, however their steps
\* interleaved, one answer is 204 and the other 404, and no row has that
\* value or its id.
C18_RacingDeletesOneSucceeds ==
    \A p, q \in Procs :
        BothDeleted(p, q)
        => /\ {resp[p], resp[q]} = {NoContent, NotFound}
           /\ Unknown(store, req[p].path[2])
           /\ RowsWithId(store, compute_sha256(req[p].path[2])) = {}

\* C18 witness: two DELETEs of "level" are answered, the second thread with
\* 204 and the first with 404, and the other records stay.
C18_Witness ==
    \E p, q \in Procs :
        /\ p < q
        /\ BothDeleted(p, q)
        /\ req[p] = DeleteReq(V_level)
        /\ resp[p] = NotFound
        /\ resp[q] = NoContent
        /\ Len(store) = Cardinality(RaceValues) - 1

=============================================================================
